---- MODULE Spec2Model ----
(***************************************************************************)
(* Payment channel chaincode (PaymentChannelContract) over a Fabric        *)
(* key-value ledger: channel lifecycle, signed state verification and the  *)
(* time-locked state scheduler.                                            *)
(*                                                                         *)
(* Every transaction handler is one atomic action: it reads the ledger,    *)
(* throws (no write is committed, the error is the response) or commits    *)
(* its whole write set.  `last` is the latest event of the ledger: the      *)
(* response of the latest invocation, or the passing of time after it.     *)
(*                                                                         *)
(* Ledger keys: the four key families ({channelId}, wallet_{address},      *)
(* timelock_{channelId}_{nonce}, {channelId}_settlementN) and the funding  *)
(* transaction ids are kept in separate maps; identifiers that would make  *)
(* two families collide are outside the modelled inputs.                   *)
(*                                                                         *)
(* Cryptography is ideal: a hash is represented by its preimage, a         *)
(* signature by the pair (signing key, signed hash).                       *)
(***************************************************************************)
EXTENDS Integers, Sequences, FiniteSets, TLC

VARIABLES channels, wallets, timelocks, settlements, funding, now, last

vars == <<channels, wallets, timelocks, settlements, funding, now, last>>

\* The persisted ledger store (what putState writes).
store == <<channels, wallets, timelocks, settlements, funding>>

----------------------------------------------------------------------------
(* Bounds *)

MaxNonce == 2
MaxBalance == 1
MaxTick == 0

----------------------------------------------------------------------------
(* Program constants and value domains *)

DISPUTE_PERIOD == 24 * 60 * 60

PROPOSED == "PROPOSED"
ACTIVE == "ACTIVE"
CLOSING == "CLOSING"
CLOSED == "CLOSED"
DISPUTED == "DISPUTED"

ChannelStatus == {PROPOSED, ACTIVE, CLOSING, CLOSED, DISPUTED}

\* getState returns null for an absent key.
NULL == [null |-> TRUE]

\* An optional field that was never assigned.
UNDEFINED == [undefined |-> TRUE]

ChannelIds == {"c1", "c2"}
TxIds == {"tx1", "tx2", "tx3", "tx4", "tx5"}

\* Public keys are hex strings: sequences of hex digits.
KeyA == <<0, 2, 1>>
KeyB == <<0, 3>>
NoKey == <<>>
PubKeys == {KeyA, KeyB}

Alice == [address |-> "a1", publicKey |-> KeyA]
Bob == [address |-> "a2", publicKey |-> KeyB]
Carol == [address |-> "a3", publicKey |-> KeyA]
Parties == {Alice, Bob, Carol}
Addresses == {"a1", "a2", "a3"}

Nonces == 0 .. MaxNonce
Balances == {0, MaxBalance}

----------------------------------------------------------------------------
(* Ledger timestamps *)

\* The Long that getTxTimestamp().seconds is: two 32-bit halves and a flag.
\* Ledger times of the model lie in 0 .. 2^31 - 1, where the high half is 0
\* and the low half is the number itself.
LongFromNumber(t) == [high |-> 0, low |-> t, unsigned |-> FALSE]

\* Long.toNumber(), on the same range
toNumber(l) == l.low

\* Mutant: every invocation carries the timestamp 0.
TxTimestampSeconds_Epoch == LongFromNumber(0)

\* ctx.stub.getTxTimestamp().seconds of the current invocation
TxTimestampSeconds == LongFromNumber(now)

\* Ledger times the model visits: around 0 and around the dispute period.
Instants == (0 .. MaxTick) \cup ((DISPUTE_PERIOD - 1) .. (DISPUTE_PERIOD + MaxTick))

----------------------------------------------------------------------------
(* Canonical codec and signature verifier (ChannelUtils) *)

\* JS string comparison used by Array.prototype.sort: lexicographic on code units.
RECURSIVE StrLess(_, _)
StrLess(a, b) ==
    IF b = <<>> THEN FALSE
    ELSE IF a = <<>> THEN TRUE
    ELSE IF Head(a) # Head(b) THEN Head(a) < Head(b)
    ELSE StrLess(Tail(a), Tail(b))

\* Mutant: the two keys are hashed in the order they were given.
sortedKeys_AsGiven(k1, k2) == <<k1, k2>>

\* [k1, k2].sort()
sortedKeys(k1, k2) == IF StrLess(k2, k1) THEN <<k2, k1>> ELSE <<k1, k2>>

\* The Base58Check address built from version byte 0x05 and the hash chain over
\* the two sorted keys fed one after the other into SHA-256: an ideal hash is
\* represented by the bytes it was fed.
generateMultiSigAddress(party1, party2) ==
    LET sk == sortedKeys(party1.publicKey, party2.publicKey) IN
    [version |-> 5, hashed |-> sk[1] \o sk[2]]

\* SHA-256 of stringify({channelId, balance1, balance2, nonce}).
createStateHash(state) ==
    [channelId |-> state.channelId, balance1 |-> state.balance1,
     balance2 |-> state.balance2, nonce |-> state.nonce]

\* A 64-byte (r, s) signature made with the private key of `signer` over `msg`.
Sign(signer, msg) == [signer |-> signer, msg |-> msg]

\* The empty string in a signature slot.
NoSig == [empty |-> TRUE]

\* Mutant: a signature over the hash verifies whoever made it.
verifySignature_AnySigner(messageHash, signature, publicKeyHex) ==
    IF signature = NoSig \/ publicKeyHex = NoKey
    THEN FALSE
    ELSE signature.msg = messageHash

verifySignature(messageHash, signature, publicKeyHex) ==
    IF signature = NoSig \/ publicKeyHex = NoKey
    THEN FALSE
    ELSE signature.signer = publicKeyHex /\ signature.msg = messageHash

\* Mutant: one valid signature is enough.
validateSignatures_Either(state, party1, party2) ==
    LET messageHash == createStateHash(state)
        validSig1 == verifySignature(messageHash, state.signature1, party1.publicKey)
        validSig2 == verifySignature(messageHash, state.signature2, party2.publicKey)
    IN validSig1 \/ validSig2

\* Mutant: only the first slot is verified.
validateSignatures_FirstSlot(state, party1, party2) ==
    LET messageHash == createStateHash(state)
    IN verifySignature(messageHash, state.signature1, party1.publicKey)

validateSignatures(state, party1, party2) ==
    LET messageHash == createStateHash(state)
        validSig1 == verifySignature(messageHash, state.signature1, party1.publicKey)
        validSig2 == verifySignature(messageHash, state.signature2, party2.publicKey)
    IN validSig1 /\ validSig2

----------------------------------------------------------------------------
(* Responses *)

\* The invocation returned normally and its write set is committed.
Ok(op, channelId) ==
    last' = [op |-> op, channelId |-> channelId, result |-> "OK"]

\* The invocation threw: nothing is written, the error is the response.
Throw(op, channelId, error) ==
    /\ last' = [op |-> op, channelId |-> channelId, result |-> error]
    /\ UNCHANGED <<channels, wallets, timelocks, settlements, funding, now>>

----------------------------------------------------------------------------
(* Initial ledger *)

\* Wallets exist for a1 and a2 only; no transaction of the contract creates one.
InitialWallets ==
    [a \in Addresses |->
        CASE a = "a1" -> [balance |-> MaxBalance]
          [] a = "a2" -> [balance |-> 0]
          [] OTHER -> NULL]

\* Funding transaction records written by the external funding flow: tx1 pays
\* the Alice/Bob multisig address exactly the amount a channel of the model
\* locks, tx2 is not confirmed, tx3 is absent, tx4 pays another address and
\* tx5 pays less than the amount locked.
InitialFunding ==
    [t \in TxIds |->
        CASE t = "tx1" -> [recipient |-> generateMultiSigAddress(Alice, Bob),
                           amount |-> MaxBalance, status |-> "CONFIRMED"]
          [] t = "tx2" -> [recipient |-> generateMultiSigAddress(Alice, Bob),
                           amount |-> 2 * MaxBalance, status |-> "PENDING"]
          [] t = "tx4" -> [recipient |-> generateMultiSigAddress(Bob, Bob),
                           amount |-> 2 * MaxBalance, status |-> "CONFIRMED"]
          [] t = "tx5" -> [recipient |-> generateMultiSigAddress(Alice, Bob),
                           amount |-> MaxBalance - 1, status |-> "CONFIRMED"]
          [] OTHER -> NULL]

Init ==
    /\ channels = [c \in ChannelIds |-> NULL]
    /\ wallets = InitialWallets
    /\ timelocks = [k \in ChannelIds \X Nonces |-> NULL]
    /\ settlements = [k \in ChannelIds \X {1, 2} |-> NULL]
    /\ funding = InitialFunding
    /\ now = 0
    /\ last = [op |-> "none", channelId |-> "", result |-> "OK"]

----------------------------------------------------------------------------
(* PaymentChannelContract transactions *)
(*                                                                         *)
(* Each handler is a chain of checks that throw, followed by its writes.   *)
(* <Handler>Error gives the error the chain ends with for the current      *)
(* ledger ("OK" when no check throws); <Handler> is the invocation.        *)

\* Mutant: the wallets are compared before the id is looked up.
ProposeChannelError_FundsFirst(channelId, party1Address, party2Address, initialBalance1, initialBalance2) ==
    LET exists == channels[channelId]
        wallet1 == wallets[party1Address]
        wallet2 == wallets[party2Address]
    IN
    IF wallet1 = NULL \/ wallet1.balance < initialBalance1 THEN "InsufficientFunds"
    ELSE IF wallet2 = NULL \/ wallet2.balance < initialBalance2 THEN "InsufficientFunds"
    ELSE IF exists # NULL THEN "AlreadyExists"
    ELSE "OK"

\* Mutant: only the first party's wallet is compared.
ProposeChannelError_FirstPartyOnly(channelId, party1Address, party2Address, initialBalance1, initialBalance2) ==
    LET exists == channels[channelId]
        wallet1 == wallets[party1Address]
    IN
    IF exists # NULL THEN "AlreadyExists"
    ELSE IF wallet1 = NULL \/ wallet1.balance < initialBalance1 THEN "InsufficientFunds"
    ELSE "OK"

ProposeChannelError(channelId, party1Address, party2Address, initialBalance1, initialBalance2) ==
    LET exists == channels[channelId]
        wallet1 == wallets[party1Address]
        wallet2 == wallets[party2Address]
    IN
    IF exists # NULL THEN "AlreadyExists"
    ELSE IF wallet1 = NULL \/ wallet1.balance < initialBalance1 THEN "InsufficientFunds"
    ELSE IF wallet2 = NULL \/ wallet2.balance < initialBalance2 THEN "InsufficientFunds"
    ELSE "OK"

ProposeChannel(channelId, party1Address, party1PubKey, party2Address, party2PubKey, initialBalance1, initialBalance2) ==
    LET error == ProposeChannelError(channelId, party1Address, party2Address,
                                     initialBalance1, initialBalance2)
        wallet1 == wallets[party1Address]
        wallet2 == wallets[party2Address]
        party1 == [address |-> party1Address, publicKey |-> party1PubKey]
        party2 == [address |-> party2Address, publicKey |-> party2PubKey]
        channel == [channelId |-> channelId,
                    party1 |-> party1,
                    party2 |-> party2,
                    balance1 |-> initialBalance1,
                    balance2 |-> initialBalance2,
                    status |-> PROPOSED,
                    nonce |-> 0,
                    multiSigAddress |-> generateMultiSigAddress(party1, party2),
                    createdAt |-> toNumber(TxTimestampSeconds),
                    closedAt |-> UNDEFINED,
                    fundingTxId |-> UNDEFINED,
                    settlementTx1Id |-> UNDEFINED,
                    settlementTx2Id |-> UNDEFINED]
        \* the two wallet objects are parsed before either is written back
        locked1 == [wallet1 EXCEPT !.balance = @ - initialBalance1]
        locked2 == [wallet2 EXCEPT !.balance = @ - initialBalance2]
    IN
    IF error # "OK"
    THEN Throw("ProposeChannel", channelId, error)
    ELSE /\ channels' = [channels EXCEPT ![channelId] = channel]
         /\ wallets' = [[wallets EXCEPT ![party1Address] = locked1]
                            EXCEPT ![party2Address] = locked2]
         /\ Ok("ProposeChannel", channelId)
         /\ UNCHANGED <<timelocks, settlements, funding, now>>

\* submittedBy: first party if signature1 is a non-empty string, else second
submitter(state, channel) ==
    IF state.signature1 # NoSig THEN channel.party1.address ELSE channel.party2.address

\* one `Invalid channel` error covers the absent and the non-ACTIVE channel
\* Mutant: a channel that is closing still takes candidate states.
SubmitTimeLockStateError_WhileClosing(channelId, state) ==
    LET channel == channels[channelId] IN
    IF channel = NULL THEN "NotFound"
    ELSE IF channel.status \notin {ACTIVE, CLOSING} THEN "InvalidState"
    ELSE IF ~validateSignatures(state, channel.party1, channel.party2) THEN "SignatureInvalid"
    ELSE "OK"

SubmitTimeLockStateError(channelId, state) ==
    LET channel == channels[channelId] IN
    IF channel = NULL THEN "NotFound"
    ELSE IF channel.status # ACTIVE THEN "InvalidState"
    ELSE IF ~validateSignatures(state, channel.party1, channel.party2) THEN "SignatureInvalid"
    ELSE "OK"

SubmitTimeLockState(channelId, state, timelock) ==
    LET error == SubmitTimeLockStateError(channelId, state)
        channel == channels[channelId]
        timeLockState == [channelId |-> channelId,
                          state |-> state,
                          timelock |-> timelock,
                          sequence |-> state.nonce,
                          submittedBy |-> submitter(state, channel)]
    IN
    IF error # "OK"
    THEN Throw("SubmitTimeLockState", channelId, error)
    ELSE /\ timelocks' = [timelocks EXCEPT ![<<channelId, state.nonce>>] = timeLockState]
         /\ Ok("SubmitTimeLockState", channelId)
         /\ UNCHANGED <<channels, wallets, settlements, funding, now>>

\* Mutant: executing a state also puts the channel back to ACTIVE.
executeState_Reactivates(channel, timeLockState) ==
    [channel EXCEPT !.balance1 = timeLockState.state.balance1,
                    !.balance2 = timeLockState.state.balance2,
                    !.nonce = timeLockState.state.nonce,
                    !.status = ACTIVE]

\* the three assignments of `Execute the state`
executeState(channel, timeLockState) ==
    [channel EXCEPT !.balance1 = timeLockState.state.balance1,
                    !.balance2 = timeLockState.state.balance2,
                    !.nonce = timeLockState.state.nonce]

\* Mutant: the instant of the timelock itself still counts as not expired.
ExecuteTimeLockStateError_Inclusive(channelId, stateNonce) ==
    LET timeLockState == timelocks[<<channelId, stateNonce>>]
        currentTime == toNumber(TxTimestampSeconds)
    IN
    IF timeLockState = NULL THEN "NotFound"
    ELSE IF currentTime <= timeLockState.timelock THEN "TimelockNotExpired"
    ELSE IF channels[channelId] = NULL THEN "NotFound"
    ELSE "OK"

ExecuteTimeLockStateError(channelId, stateNonce) ==
    LET timeLockState == timelocks[<<channelId, stateNonce>>]
        currentTime == toNumber(TxTimestampSeconds)
        channel == channels[channelId]
    IN
    IF timeLockState = NULL THEN "NotFound"
    ELSE IF currentTime < timeLockState.timelock THEN "TimelockNotExpired"
    ELSE IF channel = NULL THEN "NotFound"
    ELSE "OK"

\* Mutant: the state is applied and stored before the timelock is compared.
ExecuteTimeLockState_WritesBeforeCheck(channelId, stateNonce) ==
    LET error == ExecuteTimeLockStateError(channelId, stateNonce)
        timeLockState == timelocks[<<channelId, stateNonce>>]
        channel == channels[channelId]
    IN
    IF error \notin {"OK", "TimelockNotExpired"}
    THEN Throw("ExecuteTimeLockState", channelId, error)
    ELSE /\ channels' = [channels EXCEPT ![channelId] = executeState(channel, timeLockState)]
         /\ last' = [op |-> "ExecuteTimeLockState", channelId |-> channelId, result |-> error]
         /\ UNCHANGED <<wallets, timelocks, settlements, funding, now>>

\* Mutant: the executed record is discarded.
ExecuteTimeLockState_Discarding(channelId, stateNonce) ==
    LET error == ExecuteTimeLockStateError(channelId, stateNonce)
        timeLockState == timelocks[<<channelId, stateNonce>>]
        channel == channels[channelId]
    IN
    IF error # "OK"
    THEN Throw("ExecuteTimeLockState", channelId, error)
    ELSE /\ channels' = [channels EXCEPT ![channelId] = executeState(channel, timeLockState)]
         /\ timelocks' = [timelocks EXCEPT ![<<channelId, stateNonce>>] = NULL]
         /\ Ok("ExecuteTimeLockState", channelId)
         /\ UNCHANGED <<wallets, settlements, funding, now>>

ExecuteTimeLockState(channelId, stateNonce) ==
    LET error == ExecuteTimeLockStateError(channelId, stateNonce)
        timeLockState == timelocks[<<channelId, stateNonce>>]
        channel == channels[channelId]
    IN
    IF error # "OK"
    THEN Throw("ExecuteTimeLockState", channelId, error)
    ELSE /\ channels' = [channels EXCEPT ![channelId] = executeState(channel, timeLockState)]
         /\ Ok("ExecuteTimeLockState", channelId)
         /\ UNCHANGED <<wallets, timelocks, settlements, funding, now>>

\* Mutant: the funding must exceed the amount locked.
verifyFundingTransaction_Exceeding(txId, multiSigAddress, expectedAmount) ==
    LET tx == funding[txId] IN
    IF tx = NULL
    THEN FALSE
    ELSE /\ tx.recipient = multiSigAddress
         /\ tx.amount > expectedAmount
         /\ tx.status = "CONFIRMED"

verifyFundingTransaction(txId, multiSigAddress, expectedAmount) ==
    LET tx == funding[txId] IN
    IF tx = NULL
    THEN FALSE
    ELSE /\ tx.recipient = multiSigAddress
         /\ tx.amount >= expectedAmount
         /\ tx.status = "CONFIRMED"

\* Mutant: the funding record is verified before the status is looked at.
ActivateChannelError_FundingFirst(channelId, fundingTxId) ==
    LET channel == channels[channelId]
        expectedAmount == channel.balance1 + channel.balance2
    IN
    IF channel = NULL THEN "NotFound"
    ELSE IF ~verifyFundingTransaction(fundingTxId, channel.multiSigAddress, expectedAmount)
    THEN "FundingInvalid"
    ELSE IF channel.status # PROPOSED THEN "InvalidState"
    ELSE "OK"

ActivateChannelError(channelId, fundingTxId) ==
    LET channel == channels[channelId]
        expectedAmount == channel.balance1 + channel.balance2
    IN
    IF channel = NULL THEN "NotFound"
    ELSE IF channel.status # PROPOSED THEN "InvalidState"
    ELSE IF ~verifyFundingTransaction(fundingTxId, channel.multiSigAddress, expectedAmount)
    THEN "FundingInvalid"
    ELSE "OK"

ActivateChannel(channelId, fundingTxId) ==
    LET error == ActivateChannelError(channelId, fundingTxId)
        channel == channels[channelId]
    IN
    IF error # "OK"
    THEN Throw("ActivateChannel", channelId, error)
    ELSE /\ channels' = [channels EXCEPT ![channelId] =
                            [channel EXCEPT !.status = ACTIVE,
                                            !.fundingTxId = fundingTxId]]
         /\ Ok("ActivateChannel", channelId)
         /\ UNCHANGED <<wallets, timelocks, settlements, funding, now>>

\* Mutant: a state carrying the channel's current nonce is not stale.
staleNonce_Strict(state, channel) == state.nonce < channel.nonce

\* state.nonce <= channel.nonce
staleNonce(state, channel) == state.nonce <= channel.nonce

\* Mutant: adopting a state stamps the channel with the current ledger time.
adoptState_Restamped(channel, state, status) ==
    [channel EXCEPT !.status = status,
                    !.balance1 = state.balance1,
                    !.balance2 = state.balance2,
                    !.nonce = state.nonce,
                    !.createdAt = toNumber(TxTimestampSeconds)]

\* the channel after a signed state is adopted with a new status
adoptState(channel, state, status) ==
    [channel EXCEPT !.status = status,
                    !.balance1 = state.balance1,
                    !.balance2 = state.balance2,
                    !.nonce = state.nonce]

InitiateChannelClosureError(channelId, finalState) ==
    LET channel == channels[channelId] IN
    IF channel = NULL THEN "NotFound"
    ELSE IF channel.status # ACTIVE THEN "InvalidState"
    ELSE IF ~validateSignatures(finalState, channel.party1, channel.party2)
    THEN "SignatureInvalid"
    ELSE IF staleNonce(finalState, channel) THEN "StaleNonce"
    ELSE "OK"

InitiateChannelClosure(channelId, finalState) ==
    LET error == InitiateChannelClosureError(channelId, finalState)
        channel == channels[channelId]
    IN
    IF error # "OK"
    THEN Throw("InitiateChannelClosure", channelId, error)
    ELSE /\ channels' = [channels EXCEPT ![channelId] = adoptState(channel, finalState, CLOSING)]
         /\ Ok("InitiateChannelClosure", channelId)
         /\ UNCHANGED <<wallets, timelocks, settlements, funding, now>>

\* Mutant: the dispute period is counted from time 0, not from createdAt.
disputePeriodOpen_FromEpoch(currentTime, channel) ==
    toNumber(currentTime) < DISPUTE_PERIOD

\* Mutant: the dispute period never ends.
disputePeriodOpen_Forever(currentTime, channel) == TRUE

\* currentTime < channel.createdAt + DISPUTE_PERIOD, currentTime being the Long
\* of the timestamp: the comparison converts it to its numeric value
disputePeriodOpen(currentTime, channel) ==
    toNumber(currentTime) < channel.createdAt + DISPUTE_PERIOD

settlementTx(channel, to, amount) ==
    [from |-> channel.multiSigAddress,
     to |-> to,
     amount |-> amount,
     channelId |-> channel.channelId,
     type |-> "SETTLEMENT"]

FinalizeChannelClosureError(channelId) ==
    LET channel == channels[channelId]
        currentTime == TxTimestampSeconds
    IN
    IF channel = NULL THEN "NotFound"
    ELSE IF channel.status # CLOSING THEN "InvalidState"
    ELSE IF disputePeriodOpen(currentTime, channel) THEN "DisputeWindowOpen"
    ELSE "OK"

FinalizeChannelClosure(channelId) ==
    LET error == FinalizeChannelClosureError(channelId)
        channel == channels[channelId]
        currentTime == TxTimestampSeconds
        settlementTx1 == settlementTx(channel, channel.party1.address, channel.balance1)
        settlementTx2 == settlementTx(channel, channel.party2.address, channel.balance2)
    IN
    IF error # "OK"
    THEN Throw("FinalizeChannelClosure", channelId, error)
    ELSE /\ settlements' = [settlements EXCEPT ![<<channelId, 1>>] = settlementTx1,
                                               ![<<channelId, 2>>] = settlementTx2]
         \* closedAt receives the Long itself, not its toNumber()
         /\ channels' = [channels EXCEPT ![channelId] =
                            [channel EXCEPT !.status = CLOSED,
                                            !.closedAt = currentTime,
                                            !.settlementTx1Id = <<channelId, 1>>,
                                            !.settlementTx2Id = <<channelId, 2>>]]
         /\ Ok("FinalizeChannelClosure", channelId)
         /\ UNCHANGED <<wallets, timelocks, funding, now>>

\* Mutant: a closed channel can still be disputed.
DisputeChannelError_AfterClose(channelId, disputeState) ==
    LET channel == channels[channelId] IN
    IF channel = NULL THEN "NotFound"
    ELSE IF channel.status \notin {CLOSING, CLOSED} THEN "InvalidState"
    ELSE IF ~validateSignatures(disputeState, channel.party1, channel.party2)
    THEN "SignatureInvalid"
    ELSE IF staleNonce(disputeState, channel) THEN "StaleNonce"
    ELSE "OK"

DisputeChannelError(channelId, disputeState) ==
    LET channel == channels[channelId] IN
    IF channel = NULL THEN "NotFound"
    ELSE IF channel.status # CLOSING THEN "InvalidState"
    ELSE IF ~validateSignatures(disputeState, channel.party1, channel.party2)
    THEN "SignatureInvalid"
    ELSE IF staleNonce(disputeState, channel) THEN "StaleNonce"
    ELSE "OK"

DisputeChannel(channelId, disputeState) ==
    LET error == DisputeChannelError(channelId, disputeState)
        channel == channels[channelId]
    IN
    IF error # "OK"
    THEN Throw("DisputeChannel", channelId, error)
    ELSE /\ channels' = [channels EXCEPT ![channelId] = adoptState(channel, disputeState, DISPUTED)]
         /\ Ok("DisputeChannel", channelId)
         /\ UNCHANGED <<wallets, timelocks, settlements, funding, now>>

GetChannel(channelId) ==
    LET channel == channels[channelId] IN
    IF channel = NULL
    THEN Throw("GetChannel", channelId, "NotFound")
    ELSE /\ Ok("GetChannel", channelId)
         /\ UNCHANGED <<channels, wallets, timelocks, settlements, funding, now>>

\* The payload a successful GetChannel returns: the stored record, serialised.
\* Fields that were never assigned are left out by JSON.stringify.
GetChannelPayload(channelId) == channels[channelId]

\* A number as a JSON value of an optional field (closedAt is declared number).
Number(n) == [number |-> n]

\* The ledger's transaction timestamp moves on between invocations.
AdvanceTime(t) ==
    /\ t > now
    /\ now' = t
    /\ last' = [op |-> "AdvanceTime", channelId |-> "", result |-> "OK"]
    /\ UNCHANGED <<channels, wallets, timelocks, settlements, funding>>

----------------------------------------------------------------------------
(* Inputs of the invocations *)

\* Bodies of candidate states (what the two parties may have signed).
StateBodies(ids) ==
    [channelId : ids, balance1 : Balances, balance2 : Balances, nonce : Nonces]

\* Another body than m: what a signature lifted from an older state covers.
otherBody(m) == [m EXCEPT !.nonce = (@ + 1) % (MaxNonce + 1)]

\* What may stand in the two signature slots of a state with body m: both
\* parties' signatures in order, one missing, the two swapped, and one lifted
\* from another body.
SignaturePairs(m) ==
    LET a == Sign(KeyA, createStateHash(m))
        b == Sign(KeyB, createStateHash(m))
        old == Sign(KeyB, createStateHash(otherBody(m)))
    IN {<<a, b>>, <<NoSig, b>>, <<b, a>>, <<a, old>>}

withSignatures(m, sigs) ==
    [channelId |-> m.channelId, balance1 |-> m.balance1, balance2 |-> m.balance2,
     nonce |-> m.nonce, signature1 |-> sigs[1], signature2 |-> sigs[2]]

StateInputs(ids) ==
    UNION {{withSignatures(m, sigs) : sigs \in SignaturePairs(m)} : m \in StateBodies(ids)}

TimelockInputs == {DISPUTE_PERIOD - 1}

\* The lifecycle specification keeps at most one key timelock_{channelId}_* in
\* use per channel: a state is submitted under a new nonce only while no other
\* nonce of the channel has a record.
mayStore(channelId, nonce) ==
    \A n \in Nonces \ {nonce} : timelocks[<<channelId, n>>] = NULL

----------------------------------------------------------------------------
(* Specification: the lifecycle and the scheduler of channel c1 *)

SpecIds == {"c1"}

Propose ==
    \E c \in SpecIds, p2 \in {Bob, Carol}, b1 \in {MaxBalance, MaxBalance + 1}, b2 \in Balances :
        ProposeChannel(c, Alice.address, Alice.publicKey, p2.address, p2.publicKey, b1, b2)

Activate == \E c \in SpecIds, t \in TxIds : ActivateChannel(c, t)

InitiateClosure == \E c \in SpecIds, st \in StateInputs(SpecIds) : InitiateChannelClosure(c, st)

FinalizeClosure == \E c \in SpecIds : FinalizeChannelClosure(c)

Dispute == \E c \in SpecIds, st \in StateInputs(SpecIds) : DisputeChannel(c, st)

Submit ==
    \E c \in SpecIds, st \in StateInputs(SpecIds), tl \in TimelockInputs :
        mayStore(c, st.nonce) /\ SubmitTimeLockState(c, st, tl)

Execute == \E c \in SpecIds, n \in Nonces : ExecuteTimeLockState(c, n)

Tick == \E t \in Instants : AdvanceTime(t)

Next ==
    \/ Propose
    \/ Activate
    \/ InitiateClosure
    \/ FinalizeClosure
    \/ Dispute
    \/ Submit
    \/ Execute
    \/ Tick

Spec == Init /\ [][Next]_vars

----------------------------------------------------------------------------
(* Claims *)

Stored == {c \in ChannelIds : channels[c] # NULL}

\* C1: a stored channel is never removed and its status changes only along
\* PROPOSED -> ACTIVE by a successful ActivateChannel, ACTIVE -> CLOSING by
\* InitiateChannelClosure, CLOSING -> CLOSED by FinalizeChannelClosure and
\* CLOSING -> DISPUTED by DisputeChannel, each on that channel; every other
\* step (Submit and Execute included) leaves the status as it is, so CLOSED
\* and DISPUTED are never left.
C1_StatusTransitions ==
    [][\A c \in Stored :
        /\ channels'[c] # NULL
        /\ \/ channels'[c].status = channels[c].status
           \/ /\ last' = [op |-> "ActivateChannel", channelId |-> c, result |-> "OK"]
              /\ channels[c].status = PROPOSED /\ channels'[c].status = ACTIVE
           \/ /\ last' = [op |-> "InitiateChannelClosure", channelId |-> c, result |-> "OK"]
              /\ channels[c].status = ACTIVE /\ channels'[c].status = CLOSING
           \/ /\ last' = [op |-> "FinalizeChannelClosure", channelId |-> c, result |-> "OK"]
              /\ channels[c].status = CLOSING /\ channels'[c].status = CLOSED
           \/ /\ last' = [op |-> "DisputeChannel", channelId |-> c, result |-> "OK"]
              /\ channels[c].status = CLOSING /\ channels'[c].status = DISPUTED]_vars

\* C1 witness: a time-locked state was executed on a DISPUTED channel, which
\* still is DISPUTED.
C1_Witness ==
    /\ last = [op |-> "ExecuteTimeLockState", channelId |-> "c1", result |-> "OK"]
    /\ channels["c1"].status = DISPUTED

\* C2: the stored nonce of a channel never decreases.
C2_NonceNeverDecreases ==
    [][\A c \in Stored : channels'[c].nonce >= channels[c].nonce]_vars

\* C3: the total balance1 + balance2 of a stored channel never increases.
C3_TotalNeverIncreases ==
    [][\A c \in Stored :
        channels'[c].balance1 + channels'[c].balance2
            <= channels[c].balance1 + channels[c].balance2]_vars

\* C4: every step that changes balance1 or balance2 of a stored channel
\* strictly increases its nonce.
C4_BalanceChangeRaisesNonce ==
    [][\A c \in Stored :
        (\/ channels'[c].balance1 # channels[c].balance1
         \/ channels'[c].balance2 # channels[c].balance2)
            => channels'[c].nonce > channels[c].nonce]_vars

\* The dispute period in seconds, as the claims state it.
DisputeWindowSeconds == 86400

\* The candidate states of the specification.
SpecStates == StateInputs(SpecIds)

\* The error InitiateChannelClosure (ACTIVE channel) or DisputeChannel (CLOSING
\* channel) answers state st with on stored channel c; "none" in other statuses.
closureError(c, st) ==
    CASE channels[c].status = ACTIVE -> InitiateChannelClosureError(c, st)
      [] channels[c].status = CLOSING -> DisputeChannelError(c, st)
      [] OTHER -> "none"

\* Neither handler writes when it answers StaleNonce or SignatureInvalid.
closureRejectionWritesNothing ==
    [][(/\ last'.op \in {"InitiateChannelClosure", "DisputeChannel"}
        /\ last'.result \in {"StaleNonce", "SignatureInvalid"}) => UNCHANGED store]_vars

\* C5 (as claimed): a state whose nonce is <= the channel's nonce, submitted to
\* InitiateChannelClosure on an ACTIVE channel or to DisputeChannel on a
\* CLOSING one, is rejected with StaleNonce.
C5_StaleAlwaysStaleNonce ==
    \A c \in Stored, st \in SpecStates :
        (channels[c].status \in {ACTIVE, CLOSING} /\ st.nonce <= channels[c].nonce)
            => closureError(c, st) = "StaleNonce"

\* C5 (amended): such a state is always rejected and the store is unchanged;
\* the error is StaleNonce when both signatures validate and SignatureInvalid
\* when they do not.
C5_StaleRejected ==
    /\ [](\A c \in Stored, st \in SpecStates :
            (channels[c].status \in {ACTIVE, CLOSING} /\ st.nonce <= channels[c].nonce)
                => closureError(c, st) =
                     IF validateSignatures(st, channels[c].party1, channels[c].party2)
                     THEN "StaleNonce" ELSE "SignatureInvalid")
    /\ closureRejectionWritesNothing

\* C5 witness: a DisputeChannel was rejected with StaleNonce on a CLOSING channel.
C5_Witness ==
    /\ last = [op |-> "DisputeChannel", channelId |-> "c1", result |-> "StaleNonce"]
    /\ channels["c1"].status = CLOSING

\* C6: a state with a missing or non-validating signature, submitted to
\* InitiateChannelClosure on an ACTIVE channel or to DisputeChannel on a
\* CLOSING one, is rejected with SignatureInvalid whatever its nonce, and the
\* store is unchanged.
C6_BadSignatureRejected ==
    /\ [](\A c \in Stored, st \in SpecStates :
            (/\ channels[c].status \in {ACTIVE, CLOSING}
             /\ \/ st.signature1 = NoSig
                \/ st.signature2 = NoSig
                \/ st.signature1.signer # channels[c].party1.publicKey
                \/ st.signature2.signer # channels[c].party2.publicKey
                \/ st.signature1.msg # createStateHash(st)
                \/ st.signature2.msg # createStateHash(st))
                => closureError(c, st) = "SignatureInvalid")
    /\ [][(/\ last'.op \in {"InitiateChannelClosure", "DisputeChannel"}
           /\ last'.result = "SignatureInvalid") => UNCHANGED store]_vars

\* C6 witness: an InitiateChannelClosure was rejected with SignatureInvalid on
\* an ACTIVE channel.
C6_Witness ==
    /\ last = [op |-> "InitiateChannelClosure", channelId |-> "c1",
               result |-> "SignatureInvalid"]
    /\ channels["c1"].status = ACTIVE

\* C7: FinalizeChannelClosure on a CLOSING channel at a ledger time below
\* createdAt + 86400 fails with DisputeWindowOpen; the channel record and the
\* settlement records are unchanged.
C7_FinalizeBeforeWindowEnds ==
    [][\A c \in SpecIds :
        (/\ c \in Stored
         /\ channels[c].status = CLOSING
         /\ now < channels[c].createdAt + DisputeWindowSeconds
         /\ FinalizeChannelClosure(c))
            => /\ last'.result = "DisputeWindowOpen"
               /\ channels'[c] = channels[c]
               /\ channels'[c].status = CLOSING
               /\ settlements' = settlements]_vars

\* C7 witness: FinalizeChannelClosure failed with DisputeWindowOpen one second
\* before the window of a channel created after time 0 ends.
C7_Witness ==
    /\ last = [op |-> "FinalizeChannelClosure", channelId |-> "c1",
               result |-> "DisputeWindowOpen"]
    /\ channels["c1"].createdAt > 0
    /\ now >= DisputeWindowSeconds

\* What FinalizeChannelClosure leaves behind according to C8, closedAt aside.
settled(c) ==
    /\ last'.result = "OK"
    /\ channels'[c].status = CLOSED
    /\ settlements'[<<c, 1>>] =
            [from |-> channels[c].multiSigAddress, to |-> channels[c].party1.address,
             amount |-> channels[c].balance1, channelId |-> c, type |-> "SETTLEMENT"]
    /\ settlements'[<<c, 2>>] =
            [from |-> channels[c].multiSigAddress, to |-> channels[c].party2.address,
             amount |-> channels[c].balance2, channelId |-> c, type |-> "SETTLEMENT"]
    /\ settlements'[<<c, 1>>].amount + settlements'[<<c, 2>>].amount
            = channels[c].balance1 + channels[c].balance2
    /\ \A k \in DOMAIN settlements : k[1] # c => settlements'[k] = settlements[k]

\* A FinalizeChannelClosure of CLOSING channel c at or after createdAt + 86400.
finalizeAfterWindow(c) ==
    /\ c \in Stored
    /\ channels[c].status = CLOSING
    /\ now >= channels[c].createdAt + DisputeWindowSeconds
    /\ FinalizeChannelClosure(c)

\* C8: FinalizeChannelClosure on a CLOSING channel at a ledger time >=
\* createdAt + 86400 succeeds: the status becomes CLOSED, closedAt is the
\* current ledger time (a number of seconds), and the two settlement records
\* pay balance1 to party1 and balance2 to party2 from the multisig address.
C8_FinalizeAfterWindow ==
    [][\A c \in SpecIds :
        finalizeAfterWindow(c)
            => (settled(c) /\ channels'[c].closedAt = Number(now))]_vars

\* The part of C8 that does not concern closedAt.
C8_SettlementPart ==
    [][\A c \in SpecIds : finalizeAfterWindow(c) => settled(c)]_vars

\* C9: FinalizeChannelClosure does not succeed at the ledger time at which
\* InitiateChannelClosure succeeded on the same channel (no time has passed
\* between an event and the next invocation).
C9_NoFinalizeAtClosureTime ==
    [][(last.op = "InitiateChannelClosure" /\ last.result = "OK")
        => ~(last' = [op |-> "FinalizeChannelClosure", channelId |-> last.channelId,
                      result |-> "OK"])]_vars

ErrorTaxonomy ==
    {"AlreadyExists", "NotFound", "InvalidState", "SignatureInvalid", "StaleNonce",
     "FundingInvalid", "TimelockNotExpired", "DisputeWindowOpen", "InsufficientFunds"}

\* C10: an invocation that ends with an error of the taxonomy leaves the whole
\* ledger store (channels, wallets, timelock, settlement and funding records)
\* as it was.
C10_FailureWritesNothing ==
    [][last'.result \in ErrorTaxonomy => store' = store]_vars

\* C10 witness: an ExecuteTimeLockState failed with TimelockNotExpired while a
\* record is pending for the channel.
C10_Witness ==
    /\ last = [op |-> "ExecuteTimeLockState", channelId |-> "c1",
               result |-> "TimelockNotExpired"]
    /\ \E n \in Nonces : timelocks[<<"c1", n>>] # NULL

----------------------------------------------------------------------------
(* Retries and the scheduler *)

\* The signed states whose adoption leaves channel c as it stands now: the
\* arguments a closure or dispute that has just succeeded was invoked with.
adoptedStates(c) ==
    {st \in SpecStates :
        /\ st.balance1 = channels[c].balance1
        /\ st.balance2 = channels[c].balance2
        /\ st.nonce = channels[c].nonce
        /\ validateSignatures(st, channels[c].party1, channels[c].party2)}

\* The outcome of issuing once more, at the same ledger time, the invocation
\* on channel c that has just succeeded; its arguments are read back from
\* what the success wrote.
retryOutcomes(c) ==
    CASE last.op = "ProposeChannel" ->
            {ProposeChannelError(c, channels[c].party1.address, channels[c].party2.address,
                                 channels[c].balance1, channels[c].balance2)}
      [] last.op = "ActivateChannel" ->
            {ActivateChannelError(c, channels[c].fundingTxId)}
      [] last.op = "InitiateChannelClosure" ->
            {InitiateChannelClosureError(c, st) : st \in adoptedStates(c)}
      [] last.op = "FinalizeChannelClosure" ->
            {FinalizeChannelClosureError(c)}
      [] last.op = "DisputeChannel" ->
            {DisputeChannelError(c, st) : st \in adoptedStates(c)}
      [] last.op = "SubmitTimeLockState" ->
            {SubmitTimeLockStateError(c, timelocks[<<c, n>>].state) :
                n \in {m \in Nonces : timelocks[<<c, m>>] # NULL}}
      [] last.op = "ExecuteTimeLockState" ->
            {ExecuteTimeLockStateError(c, channels[c].nonce)}
      [] OTHER -> {}

\* C11: an invocation re-issued with the same arguments immediately after it
\* succeeded is rejected by a precondition, whichever of the seven operations
\* it is.
C11_RetryRejected ==
    \A c \in SpecIds :
        (last.channelId = c /\ last.result = "OK") => "OK" \notin retryOutcomes(c)

----------------------------------------------------------------------------
(* Specification: the scheduler of channel c1 with any number of pending
   records *)

OpenFunded ==
    ProposeChannel("c1", Alice.address, Alice.publicKey, Bob.address, Bob.publicKey, MaxBalance, 0)

ActivateFunded == ActivateChannel("c1", "tx1")

SubmitAny ==
    \E st \in SpecStates, tl \in TimelockInputs : SubmitTimeLockState("c1", st, tl)

NextScheduler ==
    \/ OpenFunded
    \/ ActivateFunded
    \/ SubmitAny
    \/ Execute
    \/ Tick

SpecScheduler == Init /\ [][NextScheduler]_vars

\* C12: ExecuteTimeLockState(channelId, nonce) succeeds only if the record's
\* timelock has elapsed and no record with a higher nonce is pending for the
\* channel. (The executed nonce is the one the success leaves on the channel.)
C12_OnlyExpiredHighestNonce ==
    [][\A c \in SpecIds :
        last' = [op |-> "ExecuteTimeLockState", channelId |-> c, result |-> "OK"]
        => LET nonce == channels'[c].nonce IN
           /\ timelocks[<<c, nonce>>] # NULL
           /\ timelocks[<<c, nonce>>].timelock <= now
           /\ \A m \in Nonces : m > nonce => timelocks[<<c, m>>] = NULL]_vars

\* The part of C12 the scheduler does enforce: the executed record has expired.
C12_OnlyExpired ==
    [][\A c \in SpecIds :
        last' = [op |-> "ExecuteTimeLockState", channelId |-> c, result |-> "OK"]
        => LET nonce == channels'[c].nonce IN
           /\ timelocks[<<c, nonce>>] # NULL
           /\ timelocks[<<c, nonce>>].timelock <= now]_vars

\* C13: after a successful ExecuteTimeLockState(channelId, nonce) no record
\* remains under timelock_{channelId}_{nonce}, so that a second
\* ExecuteTimeLockState(channelId, nonce) with no SubmitTimeLockState in
\* between fails with NotFound. (The executed nonce is the one the success
\* left on the channel.)
C13_ExecutedRecordConsumed ==
    \A c \in SpecIds :
        last = [op |-> "ExecuteTimeLockState", channelId |-> c, result |-> "OK"]
        => /\ timelocks[<<c, channels[c].nonce>>] = NULL
           /\ ExecuteTimeLockStateError(c, channels[c].nonce) = "NotFound"

\* C14: ExecuteTimeLockState(channelId, nonce) fails with NotFound when no
\* record is stored under the key and with TimelockNotExpired when the ledger
\* time is strictly less than the record's timelock, the channel record staying
\* as it was in both cases; when the time is >= the timelock it succeeds.
C14_ExecuteOutcome ==
    [][\A c \in SpecIds, n \in Nonces :
        ExecuteTimeLockState(c, n)
        => LET record == timelocks[<<c, n>>] IN
           /\ record = NULL
              => last'.result = "NotFound" /\ channels'[c] = channels[c]
           /\ (record # NULL /\ now < record.timelock)
              => last'.result = "TimelockNotExpired" /\ channels'[c] = channels[c]
           /\ (record # NULL /\ now >= record.timelock)
              => last'.result = "OK"]_vars

\* C14 witness: a record was executed at the very ledger time of its timelock.
C14_Witness ==
    /\ last = [op |-> "ExecuteTimeLockState", channelId |-> "c1", result |-> "OK"]
    /\ timelocks[<<"c1", channels["c1"].nonce>>] # NULL
    /\ timelocks[<<"c1", channels["c1"].nonce>>].timelock = now

\* Both parties of the channel signed the body of the state, each in their own
\* slot.
signedByBoth(st, channel) ==
    /\ st.signature1 = Sign(channel.party1.publicKey, createStateHash(st))
    /\ st.signature2 = Sign(channel.party2.publicKey, createStateHash(st))

\* C15: SubmitTimeLockState(channelId, state, timelock) succeeds only if the
\* channel is stored with status ACTIVE and the state is signed by both
\* parties; a success stores one record, under (channelId, state.nonce), whose
\* sequence is state.nonce and whose timelock is the given one, changes no
\* other record and leaves the channel record as it was.
C15_SubmitFrame ==
    [][\A c \in SpecIds :
        last' = [op |-> "SubmitTimeLockState", channelId |-> c, result |-> "OK"]
        => \A st \in SpecStates, tl \in TimelockInputs :
            SubmitTimeLockState(c, st, tl)
            => /\ channels[c] # NULL
               /\ channels[c].status = ACTIVE
               /\ signedByBoth(st, channels[c])
               /\ timelocks'[<<c, st.nonce>>] # NULL
               /\ timelocks'[<<c, st.nonce>>].channelId = c
               /\ timelocks'[<<c, st.nonce>>].state = st
               /\ timelocks'[<<c, st.nonce>>].sequence = st.nonce
               /\ timelocks'[<<c, st.nonce>>].timelock = tl
               /\ \A k \in (ChannelIds \X Nonces) \ {<<c, st.nonce>>} :
                    timelocks'[k] = timelocks[k]
               /\ channels' = channels
               /\ UNCHANGED <<wallets, settlements, funding>>]_vars

\* C15 witness: a state was submitted for channel c1, whose record is pending
\* while the channel still has the balances and the nonce of its proposal.
C15_Witness ==
    /\ last = [op |-> "SubmitTimeLockState", channelId |-> "c1", result |-> "OK"]
    /\ \E n \in Nonces :
        /\ timelocks[<<"c1", n>>] # NULL
        /\ timelocks[<<"c1", n>>].sequence = n
        /\ timelocks[<<"c1", n>>].state.balance2 # channels["c1"].balance2
    /\ channels["c1"].status = ACTIVE
    /\ channels["c1"].nonce = 0

\* The status each lifecycle transition starts from.
requiredStatus ==
    [op \in {"ActivateChannel", "InitiateChannelClosure", "FinalizeChannelClosure",
             "DisputeChannel"} |->
        CASE op = "ActivateChannel" -> PROPOSED
          [] op = "InitiateChannelClosure" -> ACTIVE
          [] OTHER -> CLOSING]

\* C16: Activate succeeds only from PROPOSED, InitiateClosure only from ACTIVE,
\* FinalizeClosure and Dispute only from CLOSING; on a stored channel in any
\* other status the invocation fails with InvalidState and on an absent id with
\* NotFound, whatever its other arguments, and writes nothing.
C16_StatusGuards ==
    [][\A c \in SpecIds :
        (last'.channelId = c /\ last'.op \in DOMAIN requiredStatus)
        => /\ channels[c] = NULL
              => last'.result = "NotFound" /\ store' = store
           /\ (channels[c] # NULL /\ channels[c].status # requiredStatus[last'.op])
              => last'.result = "InvalidState" /\ store' = store
           /\ last'.result = "OK"
              => channels[c] # NULL /\ channels[c].status = requiredStatus[last'.op]]_vars

\* C16 witness: a dispute was rejected with InvalidState on a closed channel.
C16_Witness ==
    /\ last = [op |-> "DisputeChannel", channelId |-> "c1", result |-> "InvalidState"]
    /\ channels["c1"].status = CLOSED

\* A funding record is stored under txId that pays the channel's multisig
\* address at least the channel's two balances and is confirmed.
funded(channel, txId) ==
    /\ funding[txId] # NULL
    /\ funding[txId].recipient = channel.multiSigAddress
    /\ funding[txId].amount >= channel.balance1 + channel.balance2
    /\ funding[txId].status = "CONFIRMED"

\* C17: ActivateChannel on a PROPOSED channel succeeds if and only if such a
\* funding record is stored under fundingTxId; otherwise it fails with
\* FundingInvalid and the channel stays as it was. A success sets the status
\* to ACTIVE and records fundingTxId, with balances and nonce unchanged.
C17_ActivateIffFunded ==
    [][\A c \in SpecIds, t \in TxIds :
        (channels[c] # NULL /\ channels[c].status = PROPOSED /\ ActivateChannel(c, t))
        => IF funded(channels[c], t)
           THEN /\ last'.result = "OK"
                /\ channels'[c].status = ACTIVE
                /\ channels'[c].fundingTxId = t
                /\ channels'[c].balance1 = channels[c].balance1
                /\ channels'[c].balance2 = channels[c].balance2
                /\ channels'[c].nonce = channels[c].nonce
           ELSE /\ last'.result = "FundingInvalid"
                /\ channels'[c] = channels[c]]_vars

\* C17 witness: a channel was activated with a funding record that pays
\* exactly its two balances.
C17_Witness ==
    /\ last = [op |-> "ActivateChannel", channelId |-> "c1", result |-> "OK"]
    /\ channels["c1"].status = ACTIVE
    /\ funding[channels["c1"].fundingTxId].amount
         = channels["c1"].balance1 + channels["c1"].balance2

\* C17 witness of the rejections: an activation failed with FundingInvalid.
C17_RejectionReached ==
    /\ last = [op |-> "ActivateChannel", channelId |-> "c1", result |-> "FundingInvalid"]
    /\ channels["c1"].status = PROPOSED

----------------------------------------------------------------------------
(* Specification: proposals of two channels by any two parties, and reads *)

ProposalAmounts == {0, MaxBalance, MaxBalance + 1}

ProposeAny ==
    \E c \in ChannelIds, p1 \in Parties, p2 \in Parties, b1 \in ProposalAmounts, b2 \in ProposalAmounts :
        ProposeChannel(c, p1.address, p1.publicKey, p2.address, p2.publicKey, b1, b2)

Get == \E c \in ChannelIds : GetChannel(c)

NextProposal ==
    \/ ProposeAny
    \/ Get
    \/ Tick

SpecProposal == Init /\ [][NextProposal]_vars

\* C18: a GetChannel issued immediately after a successful ProposeChannel
\* succeeds and returns a channel with status PROPOSED, nonce 0, the requested
\* initial balances and createdAt equal to the ledger time of the proposal;
\* GetChannel never modifies the store and fails with NotFound for an id that
\* was never proposed.
C18_ProposeThenGet ==
    [][\A c \in ChannelIds :
        /\ last' = [op |-> "ProposeChannel", channelId |-> c, result |-> "OK"]
           => \A p1 \in Parties, p2 \in Parties, b1 \in ProposalAmounts, b2 \in ProposalAmounts :
                ProposeChannel(c, p1.address, p1.publicKey, p2.address, p2.publicKey, b1, b2)
                => /\ channels'[c] # NULL
                   /\ GetChannelPayload(c)'.status = PROPOSED
                   /\ GetChannelPayload(c)'.nonce = 0
                   /\ GetChannelPayload(c)'.balance1 = b1
                   /\ GetChannelPayload(c)'.balance2 = b2
                   /\ GetChannelPayload(c)'.createdAt = now
        /\ (last'.op = "GetChannel" /\ last'.channelId = c)
           => /\ store' = store
              /\ last'.result = IF channels[c] = NULL THEN "NotFound" ELSE "OK"]_vars

\* C18 witness: a channel was read right after its proposal at a later ledger
\* time than 0, while the other id, never proposed, is absent.
C18_Witness ==
    /\ last = [op |-> "GetChannel", channelId |-> "c2", result |-> "OK"]
    /\ channels["c2"].status = PROPOSED
    /\ channels["c2"].createdAt = now
    /\ now > 0
    /\ channels["c1"] = NULL

\* C19: ProposeChannel with an id under which a channel is stored fails with
\* AlreadyExists whatever the channel's status, and leaves the channel record
\* and the wallets as they were; a success is a proposal of an id with no
\* record, and the record stays, so an id is proposed successfully at most
\* once.
C19_ProposeExistingRejected ==
    [][\A c \in SpecIds :
        /\ (last'.op = "ProposeChannel" /\ last'.channelId = c)
           => /\ channels[c] # NULL
                 => /\ last'.result = "AlreadyExists"
                    /\ channels'[c] = channels[c]
                    /\ wallets' = wallets
              /\ last'.result = "OK" => channels[c] = NULL
        /\ channels[c] # NULL => channels'[c] # NULL]_vars

\* C19 witness: a proposal of the id of a closed channel was rejected.
C19_Witness ==
    /\ last = [op |-> "ProposeChannel", channelId |-> "c1", result |-> "AlreadyExists"]
    /\ channels["c1"].status = CLOSED

\* The wallet at the address is missing or holds less than the amount.
short(address, amount) ==
    wallets[address] = NULL \/ wallets[address].balance < amount

\* C20: ProposeChannel fails with InsufficientFunds whenever party1's wallet
\* holds less than initialBalance1 or party2's wallet holds less than
\* initialBalance2, a missing wallet counting as holding too little.
C20_InsufficientWhenever ==
    \A c \in ChannelIds, p1 \in Parties, p2 \in Parties, b1 \in ProposalAmounts, b2 \in ProposalAmounts :
        (short(p1.address, b1) \/ short(p2.address, b2))
        => ProposeChannelError(c, p1.address, p2.address, b1, b2) = "InsufficientFunds"

\* C20 as amended: for an id with no stored record, ProposeChannel fails with
\* InsufficientFunds whenever one of the two wallets is missing or holds less
\* than the amount asked of it, and succeeds when both suffice; a failure with
\* InsufficientFunds writes nothing.
C20_InsufficientForNewId ==
    /\ [](\A c \in ChannelIds, p1 \in Parties, p2 \in Parties, b1 \in ProposalAmounts, b2 \in ProposalAmounts :
            channels[c] = NULL
            => ProposeChannelError(c, p1.address, p2.address, b1, b2)
                 = IF short(p1.address, b1) \/ short(p2.address, b2)
                   THEN "InsufficientFunds" ELSE "OK")
    /\ [][(last'.op = "ProposeChannel" /\ last'.result = "InsufficientFunds")
            => store' = store]_vars

\* C20 witness: after one channel was opened, the proposal of the other id
\* failed with InsufficientFunds.
C20_Witness ==
    /\ last = [op |-> "ProposeChannel", channelId |-> "c2", result |-> "InsufficientFunds"]
    /\ channels["c2"] = NULL
    /\ channels["c1"] # NULL

----------------------------------------------------------------------------
(* Address derivation and signature validation *)

\* Public keys the derivation is tried on: the parties' keys, a key that is a
\* prefix of another, and keys that differ in their last digit only.
KeySamples == {KeyA, KeyB, <<0>>, <<0, 3, 1>>, <<0, 2, 2>>}

keyHolder(k) == [address |-> "any", publicKey |-> k]

\* C21: the multisig address derived for (party1 = A, party2 = B) equals the
\* one derived for (party1 = B, party2 = A), for all keys A and B, so two
\* stored channels whose proposals swap the parties' keys carry the same
\* multiSigAddress.
C21_AddressOrderIndependent ==
    /\ \A A \in KeySamples, B \in KeySamples :
        generateMultiSigAddress(keyHolder(A), keyHolder(B))
          = generateMultiSigAddress(keyHolder(B), keyHolder(A))
    /\ \A c \in Stored, d \in Stored :
        (/\ channels[c].party1.publicKey = channels[d].party2.publicKey
         /\ channels[c].party2.publicKey = channels[d].party1.publicKey)
        => channels[c].multiSigAddress = channels[d].multiSigAddress

\* C21 witness: c1 and c2 are stored with the two different keys swapped
\* between party1 and party2.
C21_Witness ==
    /\ channels["c1"] # NULL
    /\ channels["c2"] # NULL
    /\ channels["c1"].party1.publicKey = channels["c2"].party2.publicKey
    /\ channels["c1"].party2.publicKey = channels["c2"].party1.publicKey
    /\ channels["c1"].party1.publicKey # channels["c1"].party2.publicKey

\* What may stand in one signature slot of a state with body m: nothing, or
\* the signature of either key over this body or over another one.
SlotInputs(m) ==
    {NoSig} \cup {Sign(k, h) : k \in PubKeys, h \in {createStateHash(m), createStateHash(otherBody(m))}}

\* C22: validateSignatures(state, party1, party2) is true only if signature1
\* is party1's signature and signature2 is party2's signature over the hash of
\* {channelId, balance1, balance2, nonce}; a state with one valid signature
\* only, with an empty slot, or with the signatures of two parties holding
\* different keys swapped between the slots is invalid; the result is always
\* true or false.
C22_ValidateBothSlots ==
    \A c \in Stored, m \in StateBodies(SpecIds) :
        LET party1 == channels[c].party1
            party2 == channels[c].party2
            h == createStateHash(m)
            own1 == Sign(party1.publicKey, h)
            own2 == Sign(party2.publicKey, h)
        IN
        /\ \A s1 \in SlotInputs(m), s2 \in SlotInputs(m) :
            LET valid == validateSignatures(withSignatures(m, <<s1, s2>>), party1, party2) IN
            /\ valid \in BOOLEAN
            /\ valid => (s1 = own1 /\ s2 = own2)
            /\ (s1 = NoSig \/ s2 = NoSig) => ~valid
            /\ (s1 # own1 \/ s2 # own2) => ~valid
        /\ party1.publicKey # party2.publicKey
           => ~validateSignatures(withSignatures(m, <<own2, own1>>), party1, party2)

\* C22 witness: for a stored channel of two parties holding different keys, a
\* state signed by both in their own slots is valid.
C22_Witness ==
    /\ channels["c1"] # NULL
    /\ channels["c1"].party1.publicKey # channels["c1"].party2.publicKey
    /\ \E m \in StateBodies(SpecIds) :
        validateSignatures(
            withSignatures(m, <<Sign(channels["c1"].party1.publicKey, createStateHash(m)),
                                Sign(channels["c1"].party2.publicKey, createStateHash(m))>>),
            channels["c1"].party1, channels["c1"].party2)

----------------------------------------------------------------------------
(* Data-model invariants *)

\* Specification: proposals of Alice and Bob with amounts of either sign (the
\* handler takes any number), and reads.
SignedAmounts == {-1, 0, MaxBalance}

ProposeSigned ==
    \E c \in ChannelIds, b1 \in SignedAmounts, b2 \in SignedAmounts :
        ProposeChannel(c, Alice.address, Alice.publicKey, Bob.address, Bob.publicKey, b1, b2)

NextSignedAmounts ==
    \/ ProposeSigned
    \/ Get
    \/ Tick

SpecSignedAmounts == Init /\ [][NextSignedAmounts]_vars

\* C23: each stored channel has balance1 >= 0 and balance2 >= 0, whatever
\* initial balances were passed to ProposeChannel.
C23_BalancesNonNegative ==
    \A c \in Stored : channels[c].balance1 >= 0 /\ channels[c].balance2 >= 0

\* The fields of a channel record that its proposal fixes.
identity(channel) ==
    [channelId |-> channel.channelId, party1 |-> channel.party1, party2 |-> channel.party2,
     multiSigAddress |-> channel.multiSigAddress, createdAt |-> channel.createdAt]

\* C24: once a channel is proposed, its channelId, party1, party2 (address and
\* public key), multiSigAddress and createdAt never change: every later step
\* leaves them equal to the values ProposeChannel stored, the channelId being
\* the key of the record and the multiSigAddress the one derived from the two
\* parties.
C24_IdentityImmutable ==
    /\ [](\A c \in Stored :
            /\ channels[c].channelId = c
            /\ channels[c].multiSigAddress
                 = generateMultiSigAddress(channels[c].party1, channels[c].party2))
    /\ [][\A c \in Stored :
            channels'[c] # NULL /\ identity(channels'[c]) = identity(channels[c])]_vars

\* C24 witness: a channel proposed at ledger time 0 was closed at a later time
\* with another nonce than the one of its proposal.
C24_Witness ==
    /\ channels["c1"] # NULL
    /\ channels["c1"].status = CLOSED
    /\ channels["c1"].nonce > 0
    /\ channels["c1"].createdAt = 0
    /\ now > 0

----------------------------------------------------------------------------
(* Forged and replayed states *)

triple(r) == <<r.balance1, r.balance2, r.nonce>>

\* The states pending for channel c.
pendingStates(c) ==
    {timelocks[<<c, n>>].state : n \in {m \in Nonces : timelocks[<<c, m>>] # NULL}}

\* C25: a channel's (balance1, balance2, nonce) is the triple of its proposal,
\* with nonce 0, until a step replaces it, and every step that replaces it
\* puts there the triple of a state signed by both parties of the channel:
\* one given to a successful InitiateChannelClosure or DisputeChannel, or one
\* wrapped in a pending record, and every pending record wraps such a state.
C25_OnlySignedTriples ==
    /\ [](\A c \in SpecIds :
            \A st \in pendingStates(c) : channels[c] # NULL /\ signedByBoth(st, channels[c]))
    /\ [][\A c \in SpecIds :
            /\ (channels[c] = NULL /\ channels'[c] # NULL)
               => last'.op = "ProposeChannel" /\ channels'[c].nonce = 0
            /\ (channels[c] # NULL /\ triple(channels'[c]) # triple(channels[c]))
               => \/ /\ last'.op \in {"InitiateChannelClosure", "DisputeChannel"}
                     /\ \E st \in SpecStates :
                            /\ signedByBoth(st, channels[c])
                            /\ triple(st) = triple(channels'[c])
                            /\ \/ InitiateChannelClosure(c, st)
                               \/ DisputeChannel(c, st)
                  \/ /\ last'.op = "ExecuteTimeLockState"
                     /\ \E st \in pendingStates(c) :
                            triple(st) = triple(channels'[c])]_vars

\* C25 witness: after an execution the channel carries another triple than
\* the one of its proposal.
C25_Witness ==
    /\ last = [op |-> "ExecuteTimeLockState", channelId |-> "c1", result |-> "OK"]
    /\ channels["c1"].nonce > 0
    /\ channels["c1"].balance1 # MaxBalance

\* C26: a successful ExecuteTimeLockState(channelId, nonce) sets the channel's
\* balance1, balance2 and nonce to those of the wrapped state and changes
\* nothing else: the status and the other fields of the channel, the other
\* channels, every timelock record, every wallet and every settlement record
\* stay as they were, whatever the status of the channel.
C26_ExecuteFrame ==
    [][\A c \in SpecIds, n \in Nonces :
        (ExecuteTimeLockState(c, n) /\ last'.result = "OK")
        => /\ channels' = [channels EXCEPT
                ![c] = [channels[c] EXCEPT
                          !.balance1 = timelocks[<<c, n>>].state.balance1,
                          !.balance2 = timelocks[<<c, n>>].state.balance2,
                          !.nonce = timelocks[<<c, n>>].state.nonce]]
           /\ channels'[c].status = channels[c].status
           /\ UNCHANGED <<timelocks, wallets, settlements, funding>>]_vars

\* C26 witness: a record was executed on a closed channel, which stays closed
\* with its settlement records.
C26_Witness ==
    /\ last = [op |-> "ExecuteTimeLockState", channelId |-> "c1", result |-> "OK"]
    /\ channels["c1"].status = CLOSED
    /\ settlements[<<"c1", 1>>] # NULL

\* C27: whenever a channel has status CLOSED, its two settlement records agree
\* with the channel record: the first pays balance1 and the second balance2.
C27_SettlementsAgree ==
    \A c \in Stored :
        channels[c].status = CLOSED
        => /\ settlements[<<c, 1>>] # NULL
           /\ settlements[<<c, 2>>] # NULL
           /\ settlements[<<c, 1>>].amount = channels[c].balance1
           /\ settlements[<<c, 2>>].amount = channels[c].balance2

----------------------------------------------------------------------------
(* Specification: two channels between Alice and Bob, and signed states that
   name either of them *)

ProposeBetween ==
    \E c \in ChannelIds, b1 \in Balances :
        ProposeChannel(c, Alice.address, Alice.publicKey, Bob.address, Bob.publicKey, b1, 0)

ActivateBetween == \E c \in ChannelIds : ActivateChannel(c, "tx1")

\* States offered to closure and dispute: those that split MaxBalance.
NamedStates ==
    {st \in StateInputs(ChannelIds) : st.balance1 + st.balance2 = MaxBalance}

\* States offered to the scheduler: the highest nonce, nothing left to either
\* party.
NamedFinalStates ==
    {st \in StateInputs(ChannelIds) :
        st.nonce = MaxNonce /\ st.balance1 = 0 /\ st.balance2 = 0}

InitiateNamed ==
    \E c \in ChannelIds, st \in NamedStates : InitiateChannelClosure(c, st)

DisputeNamed ==
    \E c \in ChannelIds, st \in NamedStates : DisputeChannel(c, st)

SubmitNamed ==
    \E c \in ChannelIds, st \in NamedFinalStates, tl \in TimelockInputs :
        SubmitTimeLockState(c, st, tl)

NextReplay ==
    \/ ProposeBetween
    \/ ActivateBetween
    \/ InitiateNamed
    \/ DisputeNamed
    \/ SubmitNamed

SpecReplay == Init /\ [][NextReplay]_vars

\* C28: whenever InitiateChannelClosure, DisputeChannel or SubmitTimeLockState
\* accepts a state for channel c, the state names c (state.channelId = c).
C28_StateNamesChannel ==
    /\ [](\A c \in ChannelIds, n \in Nonces :
            timelocks[<<c, n>>] # NULL => timelocks[<<c, n>>].state.channelId = c)
    /\ [][\A c \in ChannelIds :
            (/\ last'.channelId = c
             /\ last'.result = "OK"
             /\ last'.op \in {"InitiateChannelClosure", "DisputeChannel"})
            => \A st \in NamedStates :
                (InitiateChannelClosure(c, st) \/ DisputeChannel(c, st))
                => st.channelId = c]_vars

----------------------------------------------------------------------------
(* Funds *)

held(w, address) == IF w[address] = NULL THEN 0 ELSE w[address].balance

\* What the wallets at the given addresses hold together, every wallet counted
\* once.
RECURSIVE heldTogether(_, _)
heldTogether(w, addresses) ==
    IF addresses = {} THEN 0
    ELSE LET a == CHOOSE x \in addresses : TRUE
         IN held(w, a) + heldTogether(w, addresses \ {a})

\* C29: after every successful ProposeChannel, what the two parties' wallets
\* hold together plus the new channel's balance1 + balance2 equals what they
\* held together before, each wallet having been debited by exactly the
\* amount locked for it, also when party1Address and party2Address are the
\* same wallet.
C29_ProposeConservesFunds ==
    [][\A c \in ChannelIds :
        last' = [op |-> "ProposeChannel", channelId |-> c, result |-> "OK"]
        => \A p1 \in Parties, p2 \in Parties, b1 \in ProposalAmounts, b2 \in ProposalAmounts :
            ProposeChannel(c, p1.address, p1.publicKey, p2.address, p2.publicKey, b1, b2)
            => /\ heldTogether(wallets', {p1.address, p2.address}) + b1 + b2
                    = heldTogether(wallets, {p1.address, p2.address})
               /\ p1.address # p2.address
                  => /\ held(wallets', p1.address) = held(wallets, p1.address) - b1
                     /\ held(wallets', p2.address) = held(wallets, p2.address) - b2
               /\ \A a \in Addresses \ {p1.address, p2.address} : wallets'[a] = wallets[a]]_vars

\* The part of C29 that holds: two different wallets.
C29_DistinctWallets ==
    [][\A c \in ChannelIds :
        last' = [op |-> "ProposeChannel", channelId |-> c, result |-> "OK"]
        => \A p1 \in Parties, p2 \in Parties, b1 \in ProposalAmounts, b2 \in ProposalAmounts :
            (p1.address # p2.address
             /\ ProposeChannel(c, p1.address, p1.publicKey, p2.address, p2.publicKey, b1, b2))
            => /\ held(wallets', p1.address) = held(wallets, p1.address) - b1
               /\ held(wallets', p2.address) = held(wallets, p2.address) - b2
               /\ \A a \in Addresses \ {p1.address, p2.address} : wallets'[a] = wallets[a]]_vars

----------------------------------------------------------------------------
(* Specification: the scheduler of channel c1 given two timelocks *)

\* Timelocks the scheduler is given: the end of the first day, and at once.
EarlyTimelocks == TimelockInputs \cup {0}

\* States offered: those that split MaxBalance.
SplitStates == {st \in SpecStates : st.balance1 + st.balance2 = MaxBalance}

Resubmit ==
    \E st \in SplitStates, tl \in EarlyTimelocks : SubmitTimeLockState("c1", st, tl)

NextResubmit ==
    \/ OpenFunded
    \/ ActivateFunded
    \/ Resubmit
    \/ Execute
    \/ Tick

SpecResubmit == Init /\ [][NextResubmit]_vars

\* C30: once a record is stored under (channelId, nonce) with timelock T, no
\* later SubmitTimeLockState for the same key lowers its timelock, so that
\* ExecuteTimeLockState(channelId, nonce) never succeeds before the timelock
\* of the first accepted submission of that nonce.
C30_TimelockNeverLowered ==
    [][\A c \in SpecIds, n \in Nonces :
        timelocks[<<c, n>>] # NULL
        => /\ timelocks'[<<c, n>>] # NULL
           /\ timelocks'[<<c, n>>].timelock >= timelocks[<<c, n>>].timelock]_vars

----------------------------------------------------------------------------
(* Funding records and races *)

\* The channels that were activated: every status but PROPOSED is reached
\* through ActivateChannel, which records the fundingTxId.
Activated == {c \in Stored : channels[c].status # PROPOSED}

\* C31: no two distinct channels are both activated with the same fundingTxId.
C31_FundingBacksOneChannel ==
    \A c \in Activated, d \in Activated :
        c # d => channels[c].fundingTxId # channels[d].fundingTxId

\* How far along its lifecycle a status is.
rank ==
    [s \in ChannelStatus |->
        CASE s = PROPOSED -> 0
          [] s = ACTIVE -> 1
          [] s = CLOSING -> 2
          [] OTHER -> 3]

\* C32: under any interleaving of invocations, each lifecycle transition
\* succeeds at most once per channel: a success starts from the status the
\* transition requires and moves the channel further along its lifecycle, and
\* no step moves a channel back. FinalizeChannelClosure and DisputeChannel
\* exclude each other: a channel never has both settlement records and status
\* DISPUTED, and once one of the two has succeeded the other cannot.
C32_TransitionsAtMostOnce ==
    /\ [](\A c \in Stored :
            /\ channels[c].status = DISPUTED
               => settlements[<<c, 1>>] = NULL /\ settlements[<<c, 2>>] = NULL
            /\ channels[c].status \in {CLOSED, DISPUTED}
               => /\ FinalizeChannelClosureError(c) # "OK"
                  /\ \A st \in SpecStates : DisputeChannelError(c, st) # "OK")
    /\ [][\A c \in Stored :
            /\ rank[channels'[c].status] >= rank[channels[c].status]
            /\ (/\ last'.channelId = c
                /\ last'.result = "OK"
                /\ last'.op \in DOMAIN requiredStatus)
               => /\ channels[c].status = requiredStatus[last'.op]
                  /\ rank[channels'[c].status] > rank[channels[c].status]]_vars

\* C32 witness: a channel was disputed, and the finalization ordered after
\* the dispute was rejected once the dispute window had passed.
C32_Witness ==
    /\ last = [op |-> "FinalizeChannelClosure", channelId |-> "c1", result |-> "InvalidState"]
    /\ channels["c1"].status = DISPUTED
    /\ now >= channels["c1"].createdAt + DISPUTE_PERIOD

----------------------------------------------------------------------------
(* Specification: the lifecycle of channel c1 under fairness, with ledger
   times up to a dispute period after the latest proposal *)

\* Ledger times of the fair specification: those of the lifecycle
\* specification and one a dispute period after the last of them.
FairInstants == Instants \cup {2 * DISPUTE_PERIOD + MaxTick}

TickOn == \E t \in FairInstants : AdvanceTime(t)

\* Proposals are made at the times of the lifecycle specification, so that
\* the ledger times of the model reach past every channel's dispute period.
ProposeInTime == now \in Instants /\ Propose

InitiateSplit == \E c \in SpecIds, st \in SplitStates : InitiateChannelClosure(c, st)

DisputeSplit == \E c \in SpecIds, st \in SplitStates : DisputeChannel(c, st)

SubmitSplit ==
    \E c \in SpecIds, st \in SplitStates, tl \in TimelockInputs :
        mayStore(c, st.nonce) /\ SubmitTimeLockState(c, st, tl)

NextFair ==
    \/ ProposeInTime
    \/ Activate
    \/ InitiateSplit
    \/ FinalizeClosure
    \/ DisputeSplit
    \/ SubmitSplit
    \/ Execute
    \/ TickOn

\* Ledger time keeps advancing and FinalizeChannelClosure keeps being invoked.
SpecFair ==
    Init /\ [][NextFair]_vars /\ WF_vars(TickOn) /\ WF_vars(FinalizeClosure)

statusOf(c) == IF channels[c] = NULL THEN "absent" ELSE channels[c].status

\* C33: with ledger time advancing and FinalizeChannelClosure being invoked
\* again and again, every channel that reaches CLOSING eventually reaches
\* CLOSED or DISPUTED.
C33_NoStuckClosing ==
    \A c \in SpecIds : (statusOf(c) = CLOSING) ~> (statusOf(c) \in {CLOSED, DISPUTED})

\* C33 witness: a channel proposed after ledger time 0 was closed by a
\* finalization.
C33_Witness ==
    /\ last = [op |-> "FinalizeChannelClosure", channelId |-> "c1", result |-> "OK"]
    /\ statusOf("c1") = CLOSED
    /\ channels["c1"].createdAt > 0

====
